---- MODULE Spec2Model ----
(***************************************************************************)
(* A model of src/src/table-library.js (class TableLibrary): the data      *)
(* pipeline (hideColumns, applyModifications, init), the view state        *)
(* (sortState, processedData, displayData, filteredData), the sort,        *)
(* filter, metric, button and checkbox handlers that attachEventListeners  *)
(* installs, getCheckedRows, the CSV export, and a page with two tables.   *)
(*                                                                         *)
(* Strings are sequences of one-character strings.  Column indices are     *)
(* 0-based as in the source; a JavaScript array a is a sequence whose      *)
(* element a[i] is At0(a, i).                                              *)
(***************************************************************************)
EXTENDS Integers, Sequences, FiniteSets, TLC

VARIABLES
  config,            \* this.config: headings, data, hideColumns, modifyConfig
  sortState,         \* this.sortState: [colIndex, direction]
  processedData,     \* this.processedData
  processedHeadings, \* this.processedHeadings
  filteredData,      \* this.filteredData
  displayData,       \* this.displayData
  tbody,             \* DOM: the <tr> of the table body: the cells rendered, style.display
  inputs,            \* DOM: the value of each <thead> filter <input>
  dropdown,          \* DOM: each column's metric <select>: whether present, its value
  metricResult,      \* DOM: the textContent of each column's .table-metric-result
  csvContent,        \* the csvContent built by the downloadAsCSV call in progress
  sortIcon,          \* DOM: the textContent of each heading's .sort-icon
  window,            \* the global scope: what each registered handler name holds
  calls,             \* the invocations of handlers so far (history)
  returned,          \* what the last callUserFunction call returned (history)
  uncaught,          \* whether the last operation ended by an uncaught error
  checked,           \* DOM: for each <tr> and column, whether the cell's checkbox is checked
  attached,          \* DOM: whether the body's buttons and checkboxes carry this table's listeners
  checkedRows,       \* what the last getCheckedRows call returned (history)
  other,             \* the second TableLibrary instance of the page, if there is one
  sortListeners,     \* DOM: the click listeners on each table's headings, as attached
  lastOp             \* the operation that produced this state (history)

vars == <<config, sortState, processedData, processedHeadings, filteredData,
          displayData, tbody, inputs, dropdown, metricResult, csvContent,
          sortIcon, window, calls, returned, uncaught, checked, attached,
          checkedRows, other, sortListeners, lastOp>>

\* the variables of the global scope and of the handler calls
handlerVars == <<window, calls, returned>>

----------------------------------------------------------------------------
(* Bounds of the model *)

MaxRows == 3

MaxCalls == 2

MaxListeners == 3

MaxClicks == 1

----------------------------------------------------------------------------
(* Sequences and strings *)

At0(a, i) == a[i + 1]

Indexes0(a) == 0 .. (Len(a) - 1)

RECURSIVE Repeat(_, _)
Repeat(c, n) == IF n <= 0 THEN <<>> ELSE <<c>> \o Repeat(c, n - 1)

\* a newline of a template literal followed by its indentation
NL(n) == <<"\n">> \o Repeat(" ", n)

RECURSIVE FlattenSeq(_)
FlattenSeq(ss) == IF ss = <<>> THEN <<>> ELSE Head(ss) \o FlattenSeq(Tail(ss))

\* Array.prototype.join on an array of strings
RECURSIVE join(_, _)
join(ss, sep) ==
  IF ss = <<>> THEN <<>>
  ELSE IF Len(ss) = 1 THEN ss[1]
  ELSE ss[1] \o sep \o join(Tail(ss), sep)

UPPER == <<"A","B","C","D","E","F","G","H","I","J","K","L","M",
           "N","O","P","Q","R","S","T","U","V","W","X","Y","Z">>

LOWER == <<"a","b","c","d","e","f","g","h","i","j","k","l","m",
           "n","o","p","q","r","s","t","u","v","w","x","y","z">>

DIGITS == <<"0","1","2","3","4","5","6","7","8","9">>

\* The primary order of the root collation: white space, punctuation, digits,
\* letters; the two cases of a letter differ at the tertiary level only.
CollationOrder ==
  <<"\n", " ", "_", "-", ",", ";", ":", "!", ".", "\"", "(", ")", "[", "]", "{", "}", "+">>
    \o DIGITS \o LOWER

\* the characters of the model's strings
Chars == {CollationOrder[i] : i \in 1..Len(CollationOrder)}
           \cup {UPPER[i] : i \in 1..Len(UPPER)}

isUpper(c) == \E i \in 1..Len(UPPER) : UPPER[i] = c

lowerOf ==
  [c \in Chars |->
     IF isUpper(c) THEN LOWER[CHOOSE i \in 1..Len(UPPER) : UPPER[i] = c] ELSE c]

upperOf ==
  [c \in Chars |->
     IF \E i \in 1..Len(LOWER) : LOWER[i] = c
     THEN UPPER[CHOOSE i \in 1..Len(LOWER) : LOWER[i] = c] ELSE c]

\* String.prototype.toLowerCase / toUpperCase
toLowerCase(s) == [i \in 1..Len(s) |-> lowerOf[s[i]]]

toUpperCase(s) == [i \in 1..Len(s) |-> upperOf[s[i]]]

isSpace(c) == c \in {" ", "\n"}

\* String.prototype.trim
RECURSIVE trimStart(_)
trimStart(s) == IF s # <<>> /\ isSpace(Head(s)) THEN trimStart(Tail(s)) ELSE s

RECURSIVE trimEnd(_)
trimEnd(s) ==
  IF s # <<>> /\ isSpace(s[Len(s)]) THEN trimEnd(SubSeq(s, 1, Len(s) - 1)) ELSE s

trim(s) == trimEnd(trimStart(s))

\* String.prototype.includes
includes(text, part) ==
  \E i \in 1..(Len(text) - Len(part) + 1) :
    SubSeq(text, i, i + Len(part) - 1) = part

\* the decimal digits of a natural number
RECURSIVE NatToString(_)
NatToString(n) ==
  IF n < 10 THEN <<DIGITS[n + 1]>>
  ELSE NatToString(n \div 10) \o <<DIGITS[(n % 10) + 1]>>

\* Number::toString of an integer
NumberToString(n) == IF n < 0 THEN <<"-">> \o NatToString(0 - n) ELSE NatToString(n)

\* two decimal digits, zero padded
TwoDigits(n) == <<DIGITS[((n \div 10) % 10) + 1], DIGITS[(n % 10) + 1]>>

\* Number.prototype.toFixed(2) of the quotient num/den (den > 0): the integer n
\* for which n/100 is nearest to the value, the larger one on a tie; "-" and the
\* magnitude for a negative value.
toFixed2(num, den) ==
  LET mag == IF num < 0 THEN 0 - num ELSE num
      n   == (200 * mag + den) \div (2 * den)
  IN  (IF num < 0 THEN <<"-">> ELSE <<>>)
        \o NatToString(n \div 100) \o <<".">> \o TwoDigits(n % 100)

PrimaryRank ==
  [c \in Chars |->
     CHOOSE i \in 1..Len(CollationOrder) : CollationOrder[i] = lowerOf[c]]

TertiaryRank == [c \in Chars |-> IF isUpper(c) THEN 1 ELSE 0]

\* lexicographic comparison of two strings by a rank of their characters
CompareBy(rank, a, b) ==
  LET n == IF Len(a) < Len(b) THEN Len(a) ELSE Len(b)
      differ == {i \in 1..n : rank[a[i]] # rank[b[i]]}
      first == CHOOSE i \in differ : \A j \in differ : i <= j
  IN  IF differ = {} THEN (IF Len(a) < Len(b) THEN 0 - 1
                             ELSE IF Len(a) > Len(b) THEN 1 ELSE 0)
      ELSE IF rank[a[first]] < rank[b[first]] THEN 0 - 1
      ELSE 1

\* String.prototype.localeCompare: the sign of the collation order
localeCompare(a, b) ==
  LET p == CompareBy(PrimaryRank, a, b)
  IN  IF p # 0 THEN p ELSE CompareBy(TertiaryRank, a, b)

----------------------------------------------------------------------------
(* Cell values.  A cell is a record [k, n, s]: k its JavaScript kind, n its   *)
(* number (a number's value, a boolean's 0/1, a date's instant in seconds,    *)
(* a button's checkbox flag: 0 none, 1 a checkbox, 2 a checkbox rendered      *)
(* checked; the property of a generic object), s its text                     *)
(* (a text's characters, an array's one-character elements, the placeholder   *)
(* of a link or a button).                                                    *)

Null == [k |-> "null", n |-> 0, s |-> <<>>]

Bool(b) == [k |-> "boolean", n |-> IF b THEN 1 ELSE 0, s |-> <<>>]

Num(n) == [k |-> "number", n |-> n, s |-> <<>>]

NaN == [k |-> "NaN", n |-> 0, s |-> <<>>]

Text(s) == [k |-> "string", n |-> 0, s |-> s]

\* an array of one-character strings
Arr(elems) == [k |-> "array", n |-> 0, s |-> elems]

\* new Date(1000 * secs), an instant of 1 January 1970 (UTC)
DateAt(secs) == [k |-> "date", n |-> secs, s |-> <<>>]

\* new Date(NaN)
InvalidDate == [k |-> "invalidDate", n |-> 0, s |-> <<>>]

\* {type: "url", value: ..., placeholder: p}
Url(p) == [k |-> "url", n |-> 0, s |-> p]

\* {type: "button", function: ..., placeholder: p, checkbox: cb}
Button(p, cb) == [k |-> "button", n |-> IF cb THEN 1 ELSE 0, s |-> p]

\* {type: "button", function: ..., placeholder: p, checkbox: true, checkboxValue: true}
CheckedButton(p) == [k |-> "button", n |-> 2, s |-> p]

\* the plain object {a: n}
Obj(n) == [k |-> "object", n |-> n, s |-> <<>>]

\* typeof cell === "number"
isNumber(cell) == cell.k \in {"number", "NaN"}

\* typeof cell === "object" && cell !== null
isObject(cell) == cell.k \in {"array", "date", "invalidDate", "url", "button", "object"}

\* typeof v === "number" && !isNaN(v)
isNumeric(cell) == isNumber(cell) /\ cell.k # "NaN"

\* an array's elements as strings
elements(cell) == [i \in 1..Len(cell.s) |-> <<cell.s[i]>>]

quoted(s) == <<"\"">> \o s \o <<"\"">>

\* the time of day of an instant of 1 January 1970: hh:mm:ss
clock(secs) ==
  TwoDigits(secs \div 3600) \o <<":">> \o TwoDigits((secs \div 60) % 60)
    \o <<":">> \o TwoDigits(secs % 60)

\* Date.prototype.toISOString
toISOString(secs) ==
  <<"1","9","7","0","-","0","1","-","0","1","T">> \o clock(secs)
    \o <<".","0","0","0","Z">>

\* Date.prototype.toString in the UTC time zone
dateToString(secs) ==
  <<"T","h","u"," ","J","a","n"," ","0","1"," ","1","9","7","0"," ">> \o clock(secs)
    \o <<" ","G","M","T","+","0","0","0","0"," ","(","C","o","o","r","d","i","n","a",
         "t","e","d"," ","U","n","i","v","e","r","s","a","l"," ","T","i","m","e",")">>

\* String(cell)
String(cell) ==
  CASE cell.k = "null"        -> <<"n","u","l","l">>
    [] cell.k = "boolean"     -> IF cell.n = 1 THEN <<"t","r","u","e">>
                                 ELSE <<"f","a","l","s","e">>
    [] cell.k = "number"      -> NumberToString(cell.n)
    [] cell.k = "NaN"         -> <<"N","a","N">>
    [] cell.k = "string"      -> cell.s
    [] cell.k = "array"       -> join(elements(cell), <<",">>)
    [] cell.k = "date"        -> dateToString(cell.n)
    [] cell.k = "invalidDate" -> <<"I","n","v","a","l","i","d"," ","D","a","t","e">>
    [] OTHER                  -> <<"[","o","b","j","e","c","t"," ",
                                   "O","b","j","e","c","t","]">>

\* JSON.stringify(cell, null, indent) of an object cell; indent = 0 stands for
\* the call without the indent argument
JSONstringify(cell, indent) ==
  LET nl  == IF indent = 0 THEN <<>> ELSE NL(indent)
      end == IF indent = 0 THEN <<>> ELSE <<"\n">>
      sp  == IF indent = 0 THEN <<>> ELSE <<" ">>
  IN CASE cell.k = "array" ->
            IF cell.s = <<>> THEN <<"[","]">>
            ELSE <<"[">> \o nl
                   \o join([i \in 1..Len(cell.s) |-> quoted(<<cell.s[i]>>)], <<",">> \o nl)
                   \o end \o <<"]">>
       [] cell.k = "date"        -> quoted(toISOString(cell.n))
       [] cell.k = "invalidDate" -> <<"n","u","l","l">>
       [] cell.k = "object"      ->
            <<"{">> \o nl \o quoted(<<"a">>) \o <<":">> \o sp
              \o NumberToString(cell.n) \o end \o <<"}">>
       [] OTHER -> <<>>

formatDateOrTimestamp(cell) ==
  IF cell.k # "date" THEN <<>>
  ELSE
    LET secs == cell.n
        isDateOnly == /\ secs \div 3600 = 0
                      /\ (secs \div 60) % 60 = 0
                      /\ secs % 60 = 0
        hour == secs \div 3600
        hour12 == IF hour % 12 = 0 THEN 12 ELSE hour % 12
        date == <<"0","1"," ","J","a","n"," ","1","9","7","0">>
    IN IF isDateOnly THEN date
       ELSE date \o <<","," ">> \o TwoDigits(hour12) \o <<":">>
              \o TwoDigits((secs \div 60) % 60)
              \o (IF hour < 12 THEN <<" ","a","m">> ELSE <<" ","p","m">>)

\* cell.placeholder || dflt
placeholderOr(cell, dflt) == IF cell.s # <<>> THEN cell.s ELSE dflt

Open == <<"O","p","e","n">>

Action == <<"A","c","t","i","o","n">>

Mark == <<"M","a","r","k">>

\* The text nodes of the markup renderCell returns (its tags and attributes
\* carry no text; a run of white space of the template is written "\n").  The branch for objects comes before those for arrays and
\* dates, as in the source.
renderCell(cell) ==
  IF cell.k = "null" THEN <<"-">>
  ELSE IF isObject(cell) THEN
    IF cell.k = "url" THEN placeholderOr(cell, Open)
    ELSE IF cell.k = "button" THEN
      <<"\n">> \o placeholderOr(cell, Action) \o <<"\n">>
        \o (IF cell.n >= 1 THEN Mark \o <<"\n">> ELSE <<>>)
    ELSE JSONstringify(cell, 2)
  ELSE IF cell.k = "array" THEN
    IF cell.s = <<>> THEN <<"[","]">>
    ELSE <<"[">> \o join(elements(cell), <<","," ">>) \o <<"]">>
  ELSE IF cell.k = "date" THEN formatDateOrTimestamp(cell)
  ELSE IF cell.k = "boolean" THEN
    IF cell.n = 1 THEN <<"Y","e","s">> ELSE <<"N","o">>
  ELSE IF isNumber(cell) THEN String(cell)
  ELSE String(cell)

getCellTextContent(cell) ==
  IF cell.k = "null" THEN <<>>
  ELSE IF isObject(cell) THEN
    IF cell.k = "url" THEN placeholderOr(cell, Open)
    ELSE IF cell.k = "button" THEN placeholderOr(cell, Action)
    ELSE IF cell.k = "array" THEN join(elements(cell), <<";"," ">>)
    ELSE IF cell.k = "date" THEN formatDateOrTimestamp(cell)
    ELSE JSONstringify(cell, 0)
  ELSE IF cell.k = "boolean" THEN
    IF cell.n = 1 THEN <<"Y","e","s">> ELSE <<"N","o">>
  ELSE String(cell)

----------------------------------------------------------------------------
(* The data pipeline: hideColumns, applyModifications *)

\* a hide specifier: a column index or a heading label
HideIndex(n) == [t |-> "number", n |-> n, s |-> <<>>]

HideLabel(s) == [t |-> "string", n |-> 0, s |-> s]

\* config.hideColumns: an array of specifiers, or one specifier alone
HideArray(items) == [isArray |-> TRUE, items |-> items]

HideOne(item) == [isArray |-> FALSE, items |-> <<item>>]

\* Array.prototype.indexOf: the first 0-based position of x in a, or -1
indexOf(a, x) ==
  IF \E i \in 1..Len(a) : a[i] = x
  THEN (CHOOSE i \in 1..Len(a) : a[i] = x /\ \A j \in 1..(i - 1) : a[j] # x) - 1
  ELSE -1

\* Array.prototype.filter by 0-based index: the elements whose index is in keep
RECURSIVE filterIndexes(_, _, _)
filterIndexes(a, keep, i) ==
  IF i >= Len(a) THEN <<>>
  ELSE (IF i \in keep THEN <<At0(a, i)>> ELSE <<>>) \o filterIndexes(a, keep, i + 1)

\* hideIndexes with a label standing for every column of that heading
hideIndexes_everyOccurrence(headings, hide) ==
  LET hideCols == hide.items
  IN  UNION {IF hideCols[i].t = "number"
             THEN (IF hideCols[i].n >= 0 THEN {hideCols[i].n} ELSE {})
             ELSE {j \in Indexes0(headings) : At0(headings, j) = hideCols[i].s} :
             i \in 1..Len(hideCols)}

\* the hideIndexes of hideColumns: each specifier's index, those >= 0 kept
hideIndexes(headings, hide) ==
  LET hideCols == hide.items
      resolved == [i \in 1..Len(hideCols) |->
                     IF hideCols[i].t = "number" THEN hideCols[i].n
                     ELSE indexOf(headings, hideCols[i].s)]
  IN  {resolved[i] : i \in {j \in 1..Len(hideCols) : resolved[j] >= 0}}

hideColumns(headings, data, hide) ==
  LET hidden == hideIndexes(headings, hide)
  IN  [headings |-> filterIndexes(headings, Indexes0(headings) \ hidden, 0),
       data |-> [r \in 1..Len(data) |->
                   filterIndexes(data[r], Indexes0(data[r]) \ hidden, 0)]]

\* A modification rule, by name: "inc" adds one to a number and returns any
\* other cell as it is, "mark" returns the text "!", "throw" throws.
ruleThrows(rule, cell) == rule = "throw"

ruleResult(rule, cell) ==
  CASE rule = "inc"  -> IF cell.k = "number" THEN Num(cell.n + 1) ELSE cell
    [] rule = "mark" -> Text(<<"!">>)
    [] OTHER         -> cell

\* the key `${rowIndex},${colIndex}`
coordinateKey(rowIndex, colIndex) ==
  NatToString(rowIndex) \o <<",">> \o NatToString(colIndex)

\* modifyConfig maps keys (strings) to rules; a key that is absent or whose
\* value is "notAFunction" gives no rule
isRule(modifyConfig, key) ==
  key \in DOMAIN modifyConfig /\ modifyConfig[key] # "notAFunction"

modifyCell(modifyConfig, headings, cell, rowIndex, colIndex) ==
  LET heading == At0(headings, colIndex)
      byHeading == isRule(modifyConfig, heading)
      indexKey == coordinateKey(rowIndex, colIndex)
      byIndex == isRule(modifyConfig, indexKey)
      afterHeading == IF byHeading /\ ~ruleThrows(modifyConfig[heading], cell)
                      THEN ruleResult(modifyConfig[heading], cell) ELSE cell
  IN  IF byHeading /\ ruleThrows(modifyConfig[heading], cell) THEN cell
      ELSE IF byIndex /\ ruleThrows(modifyConfig[indexKey], cell) THEN afterHeading
      ELSE IF byIndex THEN ruleResult(modifyConfig[indexKey], cell)
      ELSE afterHeading

applyModifications(modifyConfig, data, headings) ==
  [r \in 1..Len(data) |->
     [c \in 1..Len(data[r]) |->
        modifyCell(modifyConfig, headings, data[r][c], r - 1, c - 1)]]

----------------------------------------------------------------------------
(* Sorting *)

Sign(x) == IF x < 0 THEN 0 - 1 ELSE IF x > 0 THEN 1 ELSE 0

\* The comparator sortByColumn passes to Array.prototype.sort, as the sign
\* sort sees: a NaN result (a NaN operand of the subtraction) counts as 0.
compare(a, b, colIndex, newDirection) ==
  LET valA == At0(a, colIndex)
      valB == At0(b, colIndex)
  IN  IF isNumber(valA) /\ isNumber(valB) THEN
        IF valA.k = "NaN" \/ valB.k = "NaN" THEN 0
        ELSE IF newDirection = "asc" THEN Sign(valA.n - valB.n)
        ELSE Sign(valB.n - valA.n)
      ELSE IF newDirection = "asc" THEN localeCompare(String(valA), String(valB))
      ELSE localeCompare(String(valB), String(valA))

\* ECMAScript's "consistent comparator" for the rows of a
consistentComparator(a, colIndex, newDirection) ==
  LET S == {a[i] : i \in 1..Len(a)}
      c(x, y) == compare(x, y, colIndex, newDirection)
  IN  \A x \in S : \A y \in S :
        /\ c(x, x) = 0
        /\ c(x, y) = 0 - c(y, x)
        /\ \A z \in S :
             /\ (c(x, y) = 0 /\ c(y, z) = 0) => c(x, z) = 0
             /\ (c(x, y) < 0 /\ c(y, z) < 0) => c(x, z) < 0
             /\ (c(x, y) = 0 /\ c(y, z) < 0) => c(x, z) < 0
             /\ (c(x, y) < 0 /\ c(y, z) = 0) => c(x, z) < 0

\* x put into the sorted sequence s after every element not greater than it
RECURSIVE insertSorted(_, _, _, _)
insertSorted(s, x, colIndex, newDirection) ==
  IF s = <<>> THEN <<x>>
  ELSE IF compare(Head(s), x, colIndex, newDirection) > 0 THEN <<x>> \o s
  ELSE <<Head(s)>> \o insertSorted(Tail(s), x, colIndex, newDirection)

\* the stable sort of a
RECURSIVE stableSort(_, _, _)
stableSort(a, colIndex, newDirection) ==
  IF a = <<>> THEN <<>>
  ELSE insertSorted(stableSort(SubSeq(a, 1, Len(a) - 1), colIndex, newDirection),
                    a[Len(a)], colIndex, newDirection)

Bijections(n) == {p \in [1..n -> 1..n] : \A i, j \in 1..n : p[i] = p[j] => i = j}

reorderings(a) == {[i \in 1..Len(a) |-> a[p[i]]] : p \in Bijections(Len(a))}

\* What Array.prototype.sort may leave in the array: the stable sort under a
\* consistent comparator, otherwise an implementation-defined order.
sortOutcomes(a, colIndex, newDirection) ==
  IF consistentComparator(a, colIndex, newDirection)
  THEN {stableSort(a, colIndex, newDirection)}
  ELSE reorderings(a)

----------------------------------------------------------------------------
(* The table: construction, init and the handlers *)

\* sortState.colIndex === null
nullIndex == -1

\* The <tr> elements generateHTML and refreshTableBody make of the rows: each
\* holds the cells its <td> elements were rendered from and its style.display.
renderRows(data) == [r \in 1..Len(data) |-> [cells |-> data[r], hidden |-> FALSE]]

\* The checked state of the checkboxes generateHTML and refreshTableBody
\* render: a button cell with a checkbox has it checked iff its checkboxValue
\* is set; any other cell has no checkbox
renderChecked(data) ==
  [r \in 1..Len(data) |->
     [c \in 1..Len(data[r]) |-> data[r][c].k = "button" /\ data[r][c].n = 2]]

\* The textContent of a <td>: the rendered cell between the template's runs of
\* white space.  A run (a line break and its indentation) is written as the
\* line break alone: a filter value is the trimmed value of a one-line input,
\* so no match begins, ends or goes on within a run.
textContent(cell) == <<"\n">> \o renderCell(cell) \o <<"\n">>

isNumericColumn(data, colIndex) ==
  \E r \in 1..Len(data) :
    colIndex < Len(data[r]) /\ isNumeric(At0(data[r], colIndex))

\* the numeric values of a column of the rows, in row order
RECURSIVE numericValues(_, _)
numericValues(rows, colIndex) ==
  IF rows = <<>> THEN <<>>
  ELSE (IF colIndex < Len(Head(rows)) /\ isNumeric(At0(Head(rows), colIndex))
        THEN <<At0(Head(rows), colIndex).n>> ELSE <<>>)
         \o numericValues(Tail(rows), colIndex)

\* values.reduce((a, b) => a + b, 0)
RECURSIVE reduceSum(_)
reduceSum(values) == IF values = <<>> THEN 0 ELSE Head(values) + reduceSum(Tail(values))

\* Math.max(...values), Math.min(...values) of a non-empty array
RECURSIVE mathMax(_)
mathMax(values) ==
  IF Len(values) = 1 THEN values[1]
  ELSE LET m == mathMax(Tail(values)) IN IF Head(values) > m THEN Head(values) ELSE m

RECURSIVE mathMin(_)
mathMin(values) ==
  IF Len(values) = 1 THEN values[1]
  ELSE LET m == mathMin(Tail(values)) IN IF Head(values) < m THEN Head(values) ELSE m

sum == <<"s","u","m">>

avg == <<"a","v","g">>

max == <<"m","a","x">>

min == <<"m","i","n">>

\* calculateMetric without its return of "" for no values
calculateMetric_noEmptyGuard(rows, colIndex, type) ==
  LET values == numericValues(rows, colIndex)
  IN  CASE type = sum -> toFixed2(reduceSum(values), 1)
        [] type = avg -> IF Len(values) = 0 THEN <<"N","a","N">>
                         ELSE toFixed2(reduceSum(values), Len(values))
        [] type = max -> IF Len(values) = 0
                         THEN <<"-","I","n","f","i","n","i","t","y">>
                         ELSE toFixed2(mathMax(values), 1)
        [] type = min -> IF Len(values) = 0 THEN <<"I","n","f","i","n","i","t","y">>
                         ELSE toFixed2(mathMin(values), 1)
        [] OTHER      -> <<>>

\* calculateMetric over the rows that are this.filteredData
calculateMetric(rows, colIndex, type) ==
  LET values == numericValues(rows, colIndex)
  IN  IF Len(values) = 0 THEN <<>>
      ELSE CASE type = sum -> toFixed2(reduceSum(values), 1)
             [] type = avg -> toFixed2(reduceSum(values), Len(values))
             [] type = max -> toFixed2(mathMax(values), 1)
             [] type = min -> toFixed2(mathMin(values), 1)
             [] OTHER      -> <<>>

\* the textContent the metric <select>'s change handler gives the result element
metricText(rows, colIndex, metric) ==
  IF metric = <<>> THEN <<>>
  ELSE toUpperCase(metric) \o <<":"," ">> \o calculateMetric(rows, colIndex, metric)

\* newDirectionOf without the test of the active column
newDirectionOf_anyColumn(state, colIndex) ==
  IF state.direction = "asc" THEN "desc"
  ELSE IF state.direction = "desc" THEN "null"
  ELSE "asc"

\* sortByColumn's new direction
newDirectionOf(state, colIndex) ==
  IF state.colIndex = colIndex /\ state.direction = "asc" THEN "desc"
  ELSE IF state.colIndex = colIndex /\ state.direction = "desc" THEN "null"
  ELSE "asc"

\* filterTable: whether a <tr> stays visible under the filter inputs
rowVisible(row, values) ==
  \A i \in 1..Len(values) :
    LET filter == toLowerCase(trim(values[i]))
        text == toLowerCase(IF i <= Len(row.cells) THEN textContent(row.cells[i])
                            ELSE <<>>)
    IN  filter # <<>> => includes(text, filter)

\* visibleRowIndexes counted among the rows that are shown, those a former
\* filter hid left out
visibleRowIndexes_amongShown(rows, values, index) ==
  LET shown == SelectSeq(rows, LAMBDA row : ~row.hidden)
      matching == {k \in 1..Len(shown) : rowVisible(shown[k], values)}
  IN  [n \in 1..Cardinality(matching) |->
         (CHOOSE k \in matching : Cardinality({j \in matching : j < k}) = n - 1) - 1]

\* filterTable's visibleRowIndexes (0-based), in row order
RECURSIVE visibleRowIndexes(_, _, _)
visibleRowIndexes(rows, values, index) ==
  IF index >= Len(rows) THEN <<>>
  ELSE (IF rowVisible(At0(rows, index), values) THEN <<index>> ELSE <<>>)
         \o visibleRowIndexes(rows, values, index + 1)

\* filteredRows reading this.processedData, as the button and checkbox
\* handlers do
filteredRows_fromProcessed(visible) ==
  [k \in 1..Len(visible) |-> At0(processedData, visible[k])]

\* filterTable: visibleRowIndexes.map((index) => this.displayData[index])
filteredRows(visible) == [k \in 1..Len(visible) |-> At0(displayData, visible[k])]

\* `"${stringValue}"` with the quotes of the value doubled
RECURSIVE doubleQuotes(_)
doubleQuotes(s) ==
  IF s = <<>> THEN <<>>
  ELSE (IF Head(s) = "\"" THEN <<"\"", "\"">> ELSE <<Head(s)>>) \o doubleQuotes(Tail(s))

csvRow(row) ==
  join([c \in 1..Len(row) |-> quoted(doubleQuotes(getCellTextContent(row[c])))], <<",">>)
    \o <<"\n">>

csvHeader(headers) ==
  join([c \in 1..Len(headers) |-> quoted(headers[c])], <<",">>) \o <<"\n">>

\* the csvContent downloadAsCSV builds
csvOf(headers, data, includeHeaders) ==
  (IF includeHeaders THEN csvHeader(headers) ELSE <<>>)
    \o FlattenSeq([r \in 1..Len(data) |-> csvRow(data[r])])

Op(name, arg) == [op |-> name, arg |-> arg]

\* What init() computes for the configuration cfg, on a page that has the
\* container: the view and the markup of generateHTML
initialized(cfg) ==
  LET processed == hideColumns(cfg.headings, cfg.data, cfg.hideColumns)
      finalData == applyModifications(cfg.modifyConfig, processed.data,
                                      processed.headings)
  IN  [processedData |-> finalData,
       processedHeadings |-> processed.headings,
       tbody |-> renderRows(finalData),
       inputs |-> [i \in 1..Len(processed.headings) |-> <<>>],
       dropdown |-> [i \in 1..Len(processed.headings) |->
                       [present |-> isNumericColumn(finalData, i - 1),
                        value |-> <<>>]],
       metricResult |-> [i \in 1..Len(processed.headings) |-> <<>>],
       sortIcon |-> [i \in 1..Len(processed.headings) |-> "updown"],
       checked |-> renderChecked(finalData)]

\* init(); it leaves this.sortState as it is
init(cfg) ==
  LET v == initialized(cfg)
  IN  /\ processedData' = v.processedData
      /\ processedHeadings' = v.processedHeadings
      /\ filteredData' = v.processedData
      /\ displayData' = v.processedData
      /\ tbody' = v.tbody
      /\ inputs' = v.inputs
      /\ dropdown' = v.dropdown
      /\ metricResult' = v.metricResult
      /\ sortIcon' = v.sortIcon
      /\ checked' = v.checked
      /\ attached' = TRUE

\* The fields new TableLibrary(cfg) sets and the markup its init() makes
TableLibrary(cfg) ==
  LET v == initialized(cfg)
  IN  /\ config = cfg
      /\ sortState = [colIndex |-> nullIndex, direction |-> "null"]
      /\ processedData = v.processedData
      /\ processedHeadings = v.processedHeadings
      /\ filteredData = v.processedData
      /\ displayData = v.processedData
      /\ tbody = v.tbody
      /\ inputs = v.inputs
      /\ dropdown = v.dropdown
      /\ metricResult = v.metricResult
      /\ sortIcon = v.sortIcon
      /\ checked = v.checked
      /\ attached = TRUE
      /\ checkedRows = <<>>
      /\ window = <<>>
      /\ calls = <<>>
      /\ returned = "none"
      /\ uncaught = FALSE
      /\ csvContent = <<>>
      /\ lastOp = Op("constructor", 0)

\* the state new TableLibrary(cfg) leaves on a page that has no other table:
\* the headings of the table carry its click listener
constructor(cfg) ==
  /\ TableLibrary(cfg)
  /\ other = [present |-> FALSE,
              sortState |-> [colIndex |-> nullIndex, direction |-> "null"],
              processedData |-> <<>>, displayData |-> <<>>, filteredData |-> <<>>]
  /\ sortListeners = [this |-> <<"this">>, other |-> <<>>]

\* updateData(newData).  The init it runs makes the table's markup anew and
\* attachEventListeners adds a click listener of this table to every
\* .table-sortable heading of the document: the new headings of this table
\* and those of the other table, which keep the listeners they had.
updateData(newData) ==
  /\ other.present => Len(sortListeners.other) < MaxListeners
  /\ config' = [config EXCEPT !.data = newData]
  /\ init(config')
  /\ sortListeners' = [this |-> <<"this">>,
                       other |-> IF other.present
                                 THEN Append(sortListeners.other, "this")
                                 ELSE sortListeners.other]
  /\ uncaught' = FALSE
  /\ UNCHANGED <<sortState, handlerVars, checkedRows, other>>
  /\ csvContent' = <<>>
  /\ lastOp' = Op("updateData", 0)

\* the sort state that keeps the column of the request whatever the direction
newSortState_keepColumn(colIndex, newDirection) ==
  [colIndex |-> colIndex, direction |-> newDirection]

\* this.sortState = {colIndex: newDirection ? colIndex : null, direction: newDirection}
newSortState(colIndex, newDirection) ==
  [colIndex |-> IF newDirection # "null" THEN colIndex ELSE nullIndex,
   direction |-> newDirection]

\* the filteredData a sort that forgets to reset it would leave
filteredDataAfterSort_kept(display, filtered) == filtered

\* this.filteredData = [...this.displayData], at the end of sortByColumn
filteredDataAfterSort(display, filtered) == display

\* the processedData a sort in place of an array shared with displayData
\* would leave
processedDataAfterSort_aliased(processed, display) == display

\* this.processedData after sortByColumn: displayData is an array of its own
\* ([...finalData] in init, [...this.processedData] in the unsorted case), so
\* the sort in place and the assignments do not reach processedData
processedDataAfterSort(processed, display) == processed

\* whether the class has the method updateRowCount that refreshTableBody
\* calls last: no method of that name is defined
updateRowCountDefined == FALSE

\* the sort icons the click handler leaves after sortByColumn has returned:
\* every icon reset, the clicked heading's set by the direction
iconsAfterSort(icons, colIndex, direction) ==
  [i \in 1..Len(icons) |->
     IF i = colIndex + 1 /\ direction = "asc" THEN "up"
     ELSE IF i = colIndex + 1 /\ direction = "desc" THEN "down"
     ELSE "updown"]

\* A click on the heading of column colIndex: sortByColumn(colIndex), with the
\* refreshTableBody it ends with, then the update of the sort icons.  The
\* call of a method that is not defined throws a TypeError, which ends
\* refreshTableBody, sortByColumn and the click handler.
sortByColumn(colIndex) ==
  LET newDirection == newDirectionOf(sortState, colIndex)
  IN  /\ sortState' = newSortState(colIndex, newDirection)
      /\ IF newDirection = "null"
         THEN displayData' = processedData
         ELSE displayData' \in sortOutcomes(displayData, colIndex, newDirection)
      /\ filteredData' = filteredDataAfterSort(displayData', filteredData)
      /\ processedData' = processedDataAfterSort(processedData, displayData')
      /\ tbody' = renderRows(displayData')
      /\ checked' = renderChecked(displayData')
      /\ attached' = FALSE
      /\ uncaught' = ~updateRowCountDefined
      /\ sortIcon' = IF updateRowCountDefined
                     THEN iconsAfterSort(sortIcon, colIndex, newDirection)
                     ELSE sortIcon
      /\ csvContent' = <<>>
      /\ lastOp' = Op("sortByColumn", colIndex)
      /\ UNCHANGED <<config, processedHeadings, inputs, dropdown,
                     metricResult, handlerVars, checkedRows, other, sortListeners>>

\* An input event on the filter <input> of column i (0-based) that leaves it
\* with the given value, and the filterTable run the debounce timer starts
filterTable(i, value) ==
  LET values == [inputs EXCEPT ![i + 1] = value]
      visible == visibleRowIndexes(tbody, values, 0)
      filtered == filteredRows(visible)
  IN  /\ inputs' = values
      /\ tbody' = [r \in 1..Len(tbody) |->
                     [tbody[r] EXCEPT !.hidden = ~rowVisible(tbody[r], values)]]
      /\ filteredData' = filtered
      /\ metricResult' = [c \in 1..Len(metricResult) |->
                            IF dropdown[c].present /\ dropdown[c].value # <<>>
                            THEN metricText(filtered, c - 1, dropdown[c].value)
                            ELSE metricResult[c]]
      /\ csvContent' = <<>>
      /\ lastOp' = Op("filterTable", i)
      /\ uncaught' = FALSE
      /\ UNCHANGED <<config, sortState, processedData, processedHeadings,
                     displayData, dropdown, sortIcon, handlerVars, checked,
                     attached, checkedRows, other, sortListeners>>

\* A change event on the metric <select> of column colIndex that leaves it
\* with the value metric
metricChange(colIndex, metric) ==
  /\ dropdown[colIndex + 1].present
  /\ dropdown' = [dropdown EXCEPT ![colIndex + 1].value = metric]
  /\ metricResult' = [metricResult EXCEPT
                        ![colIndex + 1] = metricText(filteredData, colIndex, metric)]
  /\ csvContent' = <<>>
  /\ lastOp' = Op("metricChange", colIndex)
  /\ uncaught' = FALSE
  /\ UNCHANGED <<config, sortState, processedData, processedHeadings, filteredData,
                 displayData, tbody, inputs, sortIcon, handlerVars, checked,
                 attached, checkedRows, other, sortListeners>>

\* downloadAsCSV(filename, includeHeaders)
downloadAsCSV(includeHeaders) ==
  /\ csvContent' = csvOf(processedHeadings, filteredData, includeHeaders)
  /\ lastOp' = Op("downloadAsCSV", IF includeHeaders THEN 1 ELSE 0)
  /\ uncaught' = FALSE
  /\ UNCHANGED <<config, sortState, processedData, processedHeadings, filteredData,
                 displayData, tbody, inputs, dropdown, metricResult, sortIcon,
                 handlerVars, checked, attached, checkedRows, other, sortListeners>>

\* A script of the page gives the global name fnName a value: a function
\* that returns ("function"), one that throws ("throwing"), or a value that
\* is no function ("number")
register(fnName, kind) ==
  /\ window' = [n \in DOMAIN window \cup {fnName} |->
                  IF n = fnName THEN kind ELSE window[n]]
  /\ uncaught' = FALSE
  /\ csvContent' = <<>>
  /\ lastOp' = Op("register", fnName)
  /\ UNCHANGED <<config, sortState, processedData, processedHeadings, filteredData,
                 displayData, tbody, inputs, dropdown, metricResult, sortIcon,
                 calls, returned, checked, attached, checkedRows, other, sortListeners>>

\* typeof window[fnName] === "function"
isFunction(fnName) ==
  fnName \in DOMAIN window /\ window[fnName] \in {"function", "throwing"}

\* the arguments callUserFunction passes: checkboxState ("null", "true" or
\* "false") is the third one unless it is null
argumentsOf(rowIndex, checkboxState) ==
  IF checkboxState # "null"
  THEN <<At0(processedData, rowIndex), rowIndex, checkboxState>>
  ELSE <<At0(processedData, rowIndex), rowIndex>>

\* callUserFunction(fnName, this.processedData[rowIndex], rowIndex, checkboxState)
callUserFunction(fnName, rowIndex, checkboxState) ==
  /\ Len(calls) < MaxCalls
  /\ IF isFunction(fnName)
     THEN /\ calls' = Append(calls, [fn |-> fnName,
                                     args |-> argumentsOf(rowIndex, checkboxState)])
          /\ returned' = IF window[fnName] = "throwing" THEN "none" ELSE "true"
          /\ uncaught' = (window[fnName] = "throwing")
     ELSE /\ calls' = calls
          /\ returned' = "false"
          /\ uncaught' = FALSE
  /\ csvContent' = <<>>
  /\ lastOp' = Op("callUserFunction", <<fnName, rowIndex, checkboxState>>)
  /\ UNCHANGED <<config, sortState, processedData, processedHeadings, filteredData,
                 displayData, tbody, inputs, dropdown, metricResult, sortIcon,
                 window, checked, attached, checkedRows, other, sortListeners>>

\* data-fn of a button and of its checkbox: the cell's function.  Every button
\* of the tables of the model names the function f.
dataFn(cell) == "f"

\* fnName + "Checkbox"
checkboxFn == [f |-> "fCheckbox", g |-> "gCheckbox"]

\* A click on the button of the cell in row r (its position in the table
\* body, which is its data-row-index) and column c.  The listener is on the
\* buttons that were in the document when attachEventListeners ran; it reads
\* this.processedData[rowIndex], calls the handler and, unless that threw,
\* checks the checkbox of the cell.
buttonClick(r, c) ==
  LET cell == At0(tbody[r + 1].cells, c)
      fnName == dataFn(cell)
  IN  /\ Len(calls) < MaxClicks
      /\ cell.k = "button" /\ ~tbody[r + 1].hidden
      /\ IF ~attached
         THEN /\ UNCHANGED <<calls, returned, checked>>
              /\ uncaught' = FALSE
         ELSE /\ calls' = IF isFunction(fnName)
                          THEN Append(calls, [fn |-> fnName,
                                              args |-> argumentsOf(r, "null")])
                          ELSE calls
              /\ returned' = IF ~isFunction(fnName) THEN "false"
                             ELSE IF window[fnName] = "throwing" THEN "none"
                             ELSE "true"
              /\ uncaught' = (returned' = "none")
              /\ checked' = IF cell.n >= 1 /\ ~uncaught'
                            THEN [checked EXCEPT ![r + 1][c + 1] = TRUE]
                            ELSE checked
      /\ csvContent' = <<>>
      /\ lastOp' = Op("buttonClick", <<r, c>>)
      /\ UNCHANGED <<config, sortState, processedData, processedHeadings, filteredData,
                     displayData, tbody, inputs, dropdown, metricResult, sortIcon,
                     window, attached, checkedRows, other, sortListeners>>

\* The user sets or clears the checkbox of the cell in row r and column c.
\* The change listener, on the checkboxes that were in the document when
\* attachEventListeners ran, reads this.processedData[rowIndex] and calls the
\* handler fnName + "Checkbox" with the new state.
checkboxChange(r, c) ==
  LET cell == At0(tbody[r + 1].cells, c)
      fnName == checkboxFn[dataFn(cell)]
      state == IF checked[r + 1][c + 1] THEN "false" ELSE "true"
  IN  /\ Len(calls) < MaxClicks
      /\ cell.k = "button" /\ cell.n >= 1 /\ ~tbody[r + 1].hidden
      /\ checked' = [checked EXCEPT ![r + 1][c + 1] = ~checked[r + 1][c + 1]]
      /\ IF ~attached
         THEN /\ UNCHANGED <<calls, returned>>
              /\ uncaught' = FALSE
         ELSE /\ calls' = IF isFunction(fnName)
                          THEN Append(calls, [fn |-> fnName,
                                              args |-> argumentsOf(r, state)])
                          ELSE calls
              /\ returned' = IF ~isFunction(fnName) THEN "false"
                             ELSE IF window[fnName] = "throwing" THEN "none"
                             ELSE "true"
              /\ uncaught' = (returned' = "none")
      /\ csvContent' = <<>>
      /\ lastOp' = Op("checkboxChange", <<r, c>>)
      /\ UNCHANGED <<config, sortState, processedData, processedHeadings, filteredData,
                     displayData, tbody, inputs, dropdown, metricResult, sortIcon,
                     window, attached, checkedRows, other, sortListeners>>

\* getCheckedRows(): for each checked checkbox, in document order, its
\* data-row-index and the row of this.processedData at that index
getCheckedRows ==
  /\ checkedRows' =
       FlattenSeq([r \in 1..Len(checked) |->
         FlattenSeq([c \in 1..Len(checked[r]) |->
           IF checked[r][c]
           THEN <<[index |-> r - 1, data |-> At0(processedData, r - 1)]>>
           ELSE <<>>])])
  /\ csvContent' = <<>>
  /\ uncaught' = FALSE
  /\ lastOp' = Op("getCheckedRows", 0)
  /\ UNCHANGED <<config, sortState, processedData, processedHeadings, filteredData,
                 displayData, tbody, inputs, dropdown, metricResult, sortIcon,
                 handlerVars, checked, attached, other, sortListeners>>

\* The views (sortState, processedData, displayData, filteredData) of the
\* two instances after the click listeners of a heading have run, in the
\* order they were added: each calls sortByColumn(colIndex) of the instance
\* whose attachEventListeners added it.  The TypeError that ends one
\* listener does not keep the next from running.
RECURSIVE clickOutcomes(_, _, _)
clickOutcomes(views, listeners, colIndex) ==
  IF listeners = <<>> THEN {views}
  ELSE
    LET v == views[Head(listeners)]
        newDirection == newDirectionOf(v.sortState, colIndex)
    IN  UNION {
          clickOutcomes(
            [views EXCEPT ![Head(listeners)] =
               [v EXCEPT !.sortState = newSortState(colIndex, newDirection),
                         !.displayData = d,
                         !.filteredData = filteredDataAfterSort(d, v.filteredData)]],
            Tail(listeners), colIndex) :
          d \in IF newDirection = "null"
                THEN {v.processedData}
                ELSE sortOutcomes(v.displayData, colIndex, newDirection) }

\* A click on the heading of column colIndex of a table of a page with two
\* tables ("this" or "other"): every listener the heading carries runs.
\* Each ends at the TypeError of refreshTableBody, after the rows are made
\* anew and before the sort icons are touched.
headerClick(table, colIndex) ==
  LET views == [this |-> [other EXCEPT !.sortState = sortState,
                                       !.processedData = processedData,
                                       !.displayData = displayData,
                                       !.filteredData = filteredData],
                other |-> other]
      thisRan == \E i \in 1..Len(sortListeners[table]) :
                   sortListeners[table][i] = "this"
  IN  /\ other.present /\ ~updateRowCountDefined
      /\ \E after \in clickOutcomes(views, sortListeners[table], colIndex) :
           /\ sortState' = after.this.sortState
           /\ displayData' = after.this.displayData
           /\ filteredData' = after.this.filteredData
           /\ other' = after.other
      /\ IF thisRan
         THEN /\ tbody' = renderRows(displayData')
              /\ checked' = renderChecked(displayData')
              /\ attached' = FALSE
         ELSE UNCHANGED <<tbody, checked, attached>>
      /\ uncaught' = TRUE
      /\ csvContent' = <<>>
      /\ lastOp' = Op("headerClick", <<table, colIndex>>)
      /\ UNCHANGED <<config, processedData, processedHeadings, inputs, dropdown,
                     metricResult, sortIcon, handlerVars, checkedRows,
                     sortListeners>>

----------------------------------------------------------------------------
(* Specifications.  Each is the table of one family of configurations under *)
(* the requests its claims are about.  metricChange and downloadAsCSV leave *)
(* the view (sortState, processedData, displayData, filteredData) as it is. *)

\* sequences of at most n elements of S
SeqsUpTo(S, n) == UNION {[1..k -> S] : k \in 0..n}

Config(headings, data, hide) ==
  [headings |-> headings, data |-> data, hideColumns |-> hide,
   modifyConfig |-> <<>>]

NoHide == HideArray(<<>>)

Metrics == {<<>>, sum, avg, max, min}

(* Spec: sorting, filtering and data updates of a two-column table whose    *)
(* first column mixes numbers and numeric text.                             *)

ViewHeadings == <<<<"N">>, <<"T">>>>

ViewRows ==
  { <<Num(10), Text(<<"a">>)>>,
    <<Text(<<"1","5">>), Text(<<"B">>)>>,
    <<Num(2), Text(<<"a","b">>)>> }

ViewUpdates ==
  { <<>>,
    << <<Num(2), Text(<<"a">>)>>, <<Num(10), Text(<<"B">>)>> >> }

ViewFilters == { <<>>, <<"a">>, <<" ","B">> }

Init ==
  \E data \in SeqsUpTo(ViewRows, MaxRows) :
    constructor(Config(ViewHeadings, data, NoHide))

Next ==
  \/ \E newData \in ViewUpdates : updateData(newData)
  \/ \E colIndex \in Indexes0(processedHeadings) : sortByColumn(colIndex)
  \/ \E i \in Indexes0(inputs) : \E value \in ViewFilters : filterTable(i, value)

Spec == Init /\ [][Next]_vars

(* SpecMetric: sorting, filtering and metric selection in a table of one    *)
(* column of numbers and NaN.                                               *)

MetricHeadings == <<<<"N">>>>

MetricRows == { <<Num(10)>>, <<NaN>>, <<Num(-15)>> }

MetricFilters == { <<>>, <<"1">>, <<"a">> }

InitMetric ==
  \E data \in SeqsUpTo(MetricRows, MaxRows) :
    constructor(Config(MetricHeadings, data, NoHide))

NextMetric ==
  \/ \E colIndex \in Indexes0(processedHeadings) : sortByColumn(colIndex)
  \/ \E i \in Indexes0(inputs) : \E value \in MetricFilters : filterTable(i, value)
  \/ \E colIndex \in Indexes0(dropdown) : \E metric \in Metrics :
       metricChange(colIndex, metric)

SpecMetric == InitMetric /\ [][NextMetric]_vars

(* SpecExport: sorting, filtering, data updates and CSV export of a table   *)
(* whose headings and cells hold quotes, commas and line breaks.            *)

ExportHeadings ==
  { <<<<"N">>, <<"T">>>>,
    <<<<"a",",","\n">>, <<"T">>>>,
    <<<<"5","\"">>, <<"T">>>> }

ExportRows ==
  { <<Text(<<"a","\"">>), Num(7)>>,
    <<Text(<<",","\n">>), Arr(<<"x","y">>)>>,
    <<Null, Text(<<"A">>)>> }

ExportUpdates == { << <<Text(<<"\"">>), Bool(TRUE)>> >> }

ExportFilters == { <<>>, <<"a">> }

InitExport ==
  \E headings \in ExportHeadings : \E data \in SeqsUpTo(ExportRows, MaxRows) :
    constructor(Config(headings, data, NoHide))

NextExport ==
  \/ \E newData \in ExportUpdates : updateData(newData)
  \/ \E colIndex \in Indexes0(processedHeadings) : sortByColumn(colIndex)
  \/ \E i \in Indexes0(inputs) : \E value \in ExportFilters : filterTable(i, value)
  \/ \E includeHeaders \in BOOLEAN : downloadAsCSV(includeHeaders)

SpecExport == InitExport /\ [][NextExport]_vars

(* SpecFilter: sorting and filtering a table that holds a cell of every     *)
(* kind.                                                                    *)

MaxFilterRows == 2

FilterHeadings == <<<<"K">>, <<"V">>>>

FilterRows ==
  { <<Null, Text(<<"a","-","b">>)>>,
    <<Arr(<<"x","y">>), Bool(TRUE)>>,
    <<Button(<<>>, TRUE), Num(-5)>>,
    <<DateAt(47100), Url(<<>>)>>,
    <<Obj(1), Text(<<"M","a","r","k">>)>> }

FilterValues == { <<>>, <<"-">>, <<" ","M","A","R","K">>, <<";">> }

InitFilter ==
  \E data \in SeqsUpTo(FilterRows, MaxFilterRows) :
    constructor(Config(FilterHeadings, data, NoHide))

NextFilter ==
  \/ \E colIndex \in Indexes0(processedHeadings) : sortByColumn(colIndex)
  \/ \E i \in Indexes0(inputs) : \E value \in FilterValues : filterTable(i, value)

SpecFilter == InitFilter /\ [][NextFilter]_vars

(* SpecHide: tables of three columns, two of them of one heading, built     *)
(* and updated under every hide specifier of the pool.                      *)

MaxHide == 2

HideHeadings == <<<<"a">>, <<"b">>, <<"a">>>>

HideRows ==
  { <<Num(1), Text(<<"x">>), Null>>,
    <<Num(2), Text(<<"y">>), Bool(TRUE)>> }

HideItems ==
  { HideIndex(0), HideIndex(2), HideIndex(5), HideIndex(-1),
    HideLabel(<<"a">>), HideLabel(<<"b">>), HideLabel(<<"z">>) }

HideSpecifiers ==
  {HideOne(item) : item \in HideItems}
    \cup {HideArray(items) : items \in SeqsUpTo(HideItems, MaxHide)}

InitHide ==
  \E hide \in HideSpecifiers : \E data \in SeqsUpTo(HideRows, MaxRows) :
    constructor(Config(HideHeadings, data, hide))

HideUpdates ==
  { <<>>,
    << <<Num(1), Text(<<"x">>), Null>>, <<Num(2), Text(<<"y">>), Bool(TRUE)>> >>,
    << <<Num(2), Text(<<"y">>), Bool(TRUE)>> >> }

NextHide == \E newData \in HideUpdates : updateData(newData)

SpecHide == InitHide /\ [][NextHide]_vars

(* SpecModify: tables of two columns built and updated under every         *)
(* modifyConfig that gives rules to the heading N and to the coordinates    *)
(* 0,0 and 1,1.                                                             *)

Rules == {"inc", "mark", "throw", "notAFunction"}

ModifyKeys == { <<"N">>, <<"0",",","0">>, <<"1",",","1">> }

ModifyConfigs == UNION {[K -> Rules] : K \in SUBSET ModifyKeys}

ModifyHeadings == <<<<"N">>, <<"T">>>>

ModifyRows == { <<Num(1), Text(<<"a">>)>>, <<Num(5), Null>> }

ModifyUpdates ==
  { <<>>,
    << <<Num(5), Null>>, <<Num(1), Text(<<"a">>)>> >>,
    << <<Num(1), Text(<<"a">>)>>, <<Num(1), Num(7)>> >> }

InitModify ==
  \E modifyConfig \in ModifyConfigs : \E data \in SeqsUpTo(ModifyRows, MaxRows) :
    constructor([Config(ModifyHeadings, data, NoHide) EXCEPT
                   !.modifyConfig = modifyConfig])

NextModify == \E newData \in ModifyUpdates : updateData(newData)

SpecModify == InitModify /\ [][NextModify]_vars

(* SpecCells: one-column tables of cells of every kind, rendered by the     *)
(* constructor and by updateData, and filtered.                             *)

CellValues ==
  { Null, Bool(TRUE), Bool(FALSE), Num(7), NaN,
    DateAt(0), DateAt(47100), InvalidDate,
    Arr(<<"x","y">>), Arr(<<>>),
    Url(<<>>), Url(<<"g","o">>),
    Button(<<>>, FALSE), Button(<<"d","o">>, TRUE),
    Obj(1), Text(<<"a","-","b">>) }

CellHeadings == <<<<"K">>>>

CellFilters == { <<>>, <<"x">>, <<"n","u","l","l">> }

InitCells ==
  \E data \in SeqsUpTo({<<cell>> : cell \in CellValues}, MaxFilterRows) :
    constructor(Config(CellHeadings, data, NoHide))

NextCells ==
  \/ \E cell \in CellValues : updateData(<<<<cell>>>>)
  \/ \E i \in Indexes0(inputs) : \E value \in CellFilters : filterTable(i, value)

SpecCells == InitCells /\ [][NextCells]_vars

(* SpecHandlers: a table of two rows on a page whose scripts register       *)
(* handlers under two names, and calls of callUserFunction.                 *)

HandlerNames == {"f", "g"}

HandlerKinds == {"function", "throwing", "number"}

CheckboxStates == {"null", "true", "false"}

HandlerData == << <<Num(1), Text(<<"a">>)>>, <<Num(2), Text(<<"b">>)>> >>

InitHandlers == constructor(Config(ViewHeadings, HandlerData, NoHide))

NextHandlers ==
  \/ \E fnName \in HandlerNames : \E kind \in HandlerKinds : register(fnName, kind)
  \/ \E fnName \in HandlerNames : \E rowIndex \in Indexes0(processedData) :
       \E checkboxState \in CheckboxStates :
         callUserFunction(fnName, rowIndex, checkboxState)

SpecHandlers == InitHandlers /\ [][NextHandlers]_vars

(* SpecFrame: the table of SpecMetric under sorting, filtering, metric      *)
(* selection and CSV export.                                                *)

NextFrame ==
  \/ \E colIndex \in Indexes0(processedHeadings) : sortByColumn(colIndex)
  \/ \E i \in Indexes0(inputs) : \E value \in MetricFilters : filterTable(i, value)
  \/ \E colIndex \in Indexes0(dropdown) : \E metric \in Metrics :
       metricChange(colIndex, metric)
  \/ \E includeHeaders \in BOOLEAN : downloadAsCSV(includeHeaders)

SpecFrame == InitMetric /\ [][NextFrame]_vars

(* SpecActions: tables with a column of numbers and a column of action      *)
(* buttons, some with a checkbox, under sorting, clicks on the buttons and  *)
(* checkboxes, and getCheckedRows.                                          *)

ActionTables ==
  { << <<Num(2), Button(<<>>, TRUE)>>, <<Num(1), CheckedButton(<<>>)>> >>,
    << <<Num(1), Button(<<>>, FALSE)>> >> }

InitActions ==
  \E data \in ActionTables : constructor(Config(ViewHeadings, data, NoHide))

NextActions ==
  \/ \E fnName \in {"f", "fCheckbox"} : \E kind \in {"function", "throwing"} :
       register(fnName, kind)
  \/ \E colIndex \in Indexes0(processedHeadings) : sortByColumn(colIndex)
  \/ \E r \in Indexes0(tbody) : \E c \in Indexes0(processedHeadings) :
       buttonClick(r, c)
  \/ \E r \in Indexes0(tbody) : \E c \in Indexes0(processedHeadings) :
       checkboxChange(r, c)
  \/ getCheckedRows

SpecActions == InitActions /\ [][NextActions]_vars

(* SpecPage: a page with two tables of the same headings, created in either *)
(* order, under clicks on the headings of both, and filters and data        *)
(* updates of this one.                                                     *)

InitPage ==
  \E data, otherData \in ViewUpdates : \E first \in {"this", "other"} :
    LET v == initialized(Config(ViewHeadings, otherData, NoHide))
    IN  /\ TableLibrary(Config(ViewHeadings, data, NoHide))
        /\ other = [present |-> TRUE,
                    sortState |-> [colIndex |-> nullIndex, direction |-> "null"],
                    processedData |-> v.processedData,
                    displayData |-> v.processedData,
                    filteredData |-> v.processedData]
        /\ sortListeners = IF first = "this"
                           THEN [this |-> <<"this", "other">>, other |-> <<"other">>]
                           ELSE [this |-> <<"this">>, other |-> <<"other", "this">>]

NextPage ==
  \/ \E table \in {"this", "other"} : \E colIndex \in Indexes0(processedHeadings) :
       headerClick(table, colIndex)
  \/ \E newData \in ViewUpdates : updateData(newData)
  \/ \E i \in Indexes0(inputs) : \E value \in ViewFilters : filterTable(i, value)

SpecPage == InitPage /\ [][NextPage]_vars

----------------------------------------------------------------------------
(* Claims about the view: C1 - C4, under Spec *)

none == [colIndex |-> nullIndex, direction |-> "null"]

asc(c) == [colIndex |-> c, direction |-> "asc"]

desc(c) == [colIndex |-> c, direction |-> "desc"]

RECURSIVE isSubsequence(_, _)
isSubsequence(a, b) ==
  IF a = <<>> THEN TRUE
  ELSE IF b = <<>> THEN FALSE
  ELSE IF Head(a) = Head(b) THEN isSubsequence(Tail(a), Tail(b))
  ELSE isSubsequence(a, Tail(b))

occurrences(a, x) == Cardinality({i \in 1..Len(a) : a[i] = x})

isPermutation(a, b) ==
  /\ Len(a) = Len(b)
  /\ \A i \in 1..Len(a) : occurrences(a, a[i]) = occurrences(b, a[i])

\* rows in non-decreasing order of column c under the comparator of the sort
ascending(rows, c) ==
  \A i, j \in 1..Len(rows) : i < j => compare(rows[i], rows[j], c, "asc") <= 0

\* rows in non-increasing order of column c
descending(rows, c) ==
  \A i, j \in 1..Len(rows) : i < j => compare(rows[i], rows[j], c, "asc") >= 0

\* C1: every sortByColumn(c) step follows the tri-state transition table:
\* (none,none) -> (c,asc); (c,asc) -> (c,desc); (c,desc) -> (none,none);
\* (c',dir) with c' another column -> (c,asc).
C1_SortTransitionTable ==
  [][lastOp'.op = "sortByColumn" =>
       LET c == lastOp'.arg
       IN  /\ sortState = none => sortState' = asc(c)
           /\ sortState = asc(c) => sortState' = desc(c)
           /\ sortState = desc(c) => sortState' = none
           /\ (sortState.colIndex # nullIndex /\ sortState.colIndex # c)
                => sortState' = asc(c)]_vars

\* a third request for the active column has put the sort state back to none
C1_Witness ==
  /\ lastOp.op = "sortByColumn"
  /\ sortState = none
  /\ Len(displayData) >= 2

\* C2: in every reachable state filteredData is a subsequence of displayData
\* and displayData is a permutation of processedData.
C2_ViewTriad ==
  /\ isSubsequence(filteredData, displayData)
  /\ isPermutation(displayData, processedData)

\* a filter has narrowed a view that a descending sort has reordered
C2_Witness ==
  /\ lastOp.op = "filterTable"
  /\ sortState.direction = "desc"
  /\ displayData # processedData
  /\ Len(filteredData) > 0
  /\ Len(filteredData) < Len(displayData)

\* C3: every initialization (the constructor's and updateData's) leaves
\* displayData and filteredData equal to processedData and the sort state none.
C3_InitResetsView ==
  lastOp.op \in {"constructor", "updateData"} =>
    /\ displayData = processedData
    /\ filteredData = processedData
    /\ sortState = none

\* C4: from sort state none, one sortByColumn(c) leaves displayData ascending
\* in column c, a second one leaves the same rows descending, a third one
\* leaves displayData equal to processedData.
C4_SortCycle ==
  [][lastOp'.op = "sortByColumn" =>
       LET c == lastOp'.arg
       IN  /\ sortState = none =>
                /\ ascending(displayData', c)
                /\ isPermutation(displayData', displayData)
           /\ (sortState = asc(c) /\ ascending(displayData, c)) =>
                /\ descending(displayData', c)
                /\ isPermutation(displayData', displayData)
           /\ sortState = desc(c) => displayData' = processedData]_vars

----------------------------------------------------------------------------
(* Claims about the metrics: C6, C7, under SpecMetric *)

\* C6: for every column with an active metric selection the result shown is
\* calculateMetric of that column and metric over the current filteredData.
C6_MetricFresh ==
  \A c \in 1..Len(dropdown) :
    (dropdown[c].present /\ dropdown[c].value # <<>>) =>
      metricResult[c] = metricText(filteredData, c - 1, dropdown[c].value)

\* the rows whose cell in column c is a number other than NaN
numericRows(rows, c) == {i \in 1..Len(rows) : At0(rows[i], c).k = "number"}

RECURSIVE sumOver(_, _, _)
sumOver(I, rows, c) ==
  IF I = {} THEN 0
  ELSE LET i == CHOOSE x \in I : TRUE
       IN  At0(rows[i], c).n + sumOver(I \ {i}, rows, c)

\* the metric of column c of the rows, as the claim states it
expectedMetric(rows, c, metric) ==
  LET I == numericRows(rows, c)
      V == {At0(rows[i], c).n : i \in I}
  IN  IF I = {} THEN <<>>
      ELSE CASE metric = sum -> toFixed2(sumOver(I, rows, c), 1)
             [] metric = avg -> toFixed2(sumOver(I, rows, c), Cardinality(I))
             [] metric = max -> toFixed2(CHOOSE v \in V : \A w \in V : v >= w, 1)
             [] metric = min -> toFixed2(CHOOSE v \in V : \A w \in V : v <= w, 1)

\* C7: calculateMetric takes the values of the column that are numbers other
\* than NaN in filteredData; with none of them the result is the empty string
\* for each of sum, avg, max, min; otherwise it is their sum, their sum divided
\* by their count, their maximum, their minimum (to two decimals).
C7_CalculateMetric ==
  /\ \A c \in Indexes0(processedHeadings) : \A metric \in {sum, avg, max, min} :
       calculateMetric(filteredData, c, metric) = expectedMetric(filteredData, c, metric)
  /\ lastOp.op \in {"metricChange", "filterTable"} =>
       \A c \in 1..Len(dropdown) :
         (dropdown[c].present /\ dropdown[c].value # <<>>) =>
           metricResult[c] = toUpperCase(dropdown[c].value) \o <<":"," ">>
                               \o expectedMetric(filteredData, c - 1, dropdown[c].value)

\* the average has been asked for over a filteredData of two different
\* numbers, narrower than a displayData that holds a NaN too
C7_Witness ==
  /\ lastOp.op = "metricChange"
  /\ dropdown[1].value = avg
  /\ metricResult[1] = <<"A","V","G",":"," ","-","2",".","5","0">>
  /\ Len(filteredData) < Len(displayData)
  /\ Cardinality(numericRows(filteredData, 0)) = 2
  /\ \E i \in 1..Len(displayData) : displayData[i][1].k = "NaN"

----------------------------------------------------------------------------
(* Claims about the export: C8, C9, under SpecExport *)

\* A CSV text read by the quoted-field rule: every field is wrapped in quotes,
\* a quote within a field is doubled, a comma separates fields, a line break
\* ends a record (an empty line is a record of no fields).  st is "record" at
\* the start of a record, "field" after a comma, "quoted" within a field,
\* "quote" after a quote within a field.
RECURSIVE csvScan(_, _, _, _, _, _)
csvScan(text, i, st, fld, record, records) ==
  IF i > Len(text) THEN [ok |-> st = "record", records |-> records]
  ELSE
    LET c == text[i]
    IN  CASE st = "record" ->
               IF c = "\"" THEN csvScan(text, i + 1, "quoted", <<>>, <<>>, records)
               ELSE IF c = "\n"
               THEN csvScan(text, i + 1, "record", <<>>, <<>>, Append(records, <<>>))
               ELSE [ok |-> FALSE, records |-> records]
          [] st = "field" ->
               IF c = "\"" THEN csvScan(text, i + 1, "quoted", <<>>, record, records)
               ELSE [ok |-> FALSE, records |-> records]
          [] st = "quoted" ->
               IF c = "\"" THEN csvScan(text, i + 1, "quote", fld, record, records)
               ELSE csvScan(text, i + 1, "quoted", Append(fld, c), record, records)
          [] OTHER ->
               IF c = "\"" THEN csvScan(text, i + 1, "quoted", Append(fld, c), record, records)
               ELSE IF c = ","
               THEN csvScan(text, i + 1, "field", <<>>, Append(record, fld), records)
               ELSE IF c = "\n"
               THEN csvScan(text, i + 1, "record", <<>>, <<>>,
                            Append(records, Append(record, fld)))
               ELSE [ok |-> FALSE, records |-> records]

parseCSV(text) == csvScan(text, 1, "record", <<>>, <<>>, <<>>)

headerRows == IF lastOp.arg = 1 THEN 1 ELSE 0

\* C8: the CSV of downloadAsCSV holds one data row for each row of the current
\* filteredData, in its order and with its cells' texts, and no other data
\* row; it holds the header row iff includeHeaders.
C8_ExportsFilteredRows ==
  lastOp.op = "downloadAsCSV" =>
    LET parsed == parseCSV(csvContent)
    IN  /\ parsed.ok
        /\ Len(parsed.records) = headerRows + Len(filteredData)
        /\ \A r \in 1..Len(filteredData) :
             parsed.records[headerRows + r] =
               [c \in 1..Len(filteredData[r]) |-> getCellTextContent(filteredData[r][c])]

\* C9: the CSV of downloadAsCSV, read by the quoted-field rule, gives
\* Len(headings) fields for every data row, and for the header row when
\* includeHeaders.
C9_CsvRoundTrip ==
  lastOp.op = "downloadAsCSV" =>
    LET parsed == parseCSV(csvContent)
    IN  /\ parsed.ok
        /\ Len(parsed.records) = headerRows + Len(filteredData)
        /\ \A r \in 1..Len(parsed.records) :
             Len(parsed.records[r]) = Len(processedHeadings)

----------------------------------------------------------------------------
(* Claim about the filter: C5, under SpecFilter *)

\* whether the export text of every cell of the row contains the predicate of
\* its column, letter case aside; an empty predicate matches
matchesPredicates(row, predicates) ==
  \A i \in 1..Len(predicates) :
    LET p == toLowerCase(trim(predicates[i]))
    IN  p # <<>> => includes(toLowerCase(getCellTextContent(row[i])), p)

\* C5: after a filter operation filteredData is the rows of displayData, in
\* its order, whose export text matches the predicate of every column.
C5_FilterByExportText ==
  lastOp.op = "filterTable" =>
    filteredData = SelectSeq(displayData, LAMBDA row : matchesPredicates(row, inputs))

----------------------------------------------------------------------------
(* Claim about the projection: C10, under SpecHide *)

\* the columns the specifier names: an index names the column at it, a label
\* the first column of that heading
namedColumns(headings, item) ==
  IF item.t = "number" THEN {item.n} \cap Indexes0(headings)
  ELSE {i \in Indexes0(headings) :
          /\ At0(headings, i) = item.s
          /\ \A j \in 0..(i - 1) : At0(headings, j) # item.s}

hiddenColumns(cfg) ==
  UNION {namedColumns(cfg.headings, cfg.hideColumns.items[k]) :
           k \in 1..Len(cfg.hideColumns.items)}

\* the entries of a at the indexes of keep, in ascending order of index
projection(a, keep) ==
  [k \in 1..Cardinality(keep) |->
     At0(a, CHOOSE i \in keep : Cardinality({j \in keep : j < i}) = k - 1)]

\* C10: the headings and every row of the table are the configured ones less
\* the entries at the hidden indexes, the others in their order; their
\* length is Len(headings) less the number of distinct hidden indexes.
C10_HideProjection ==
  LET hidden == hiddenColumns(config)
      keep == Indexes0(config.headings) \ hidden
      width == Len(config.headings) - Cardinality(hidden)
  IN  /\ Len(processedHeadings) = width
      /\ processedHeadings = projection(config.headings, keep)
      /\ Len(processedData) = Len(config.data)
      /\ \A r \in 1..Len(processedData) :
           /\ Len(processedData[r]) = width
           /\ processedData[r] = projection(config.data[r], keep)

\* a table updated under a collection that names the first column by index
\* and by label
C10_Witness ==
  /\ lastOp.op = "updateData"
  /\ config.hideColumns = HideArray(<<HideIndex(0), HideLabel(<<"a">>)>>)
  /\ Len(processedData) >= 2
  /\ processedHeadings = <<<<"b">>, <<"a">>>>
  /\ processedData[1] = <<Text(<<"x">>), Null>>

----------------------------------------------------------------------------
(* Claims about the modification rules: C11, C12, under SpecModify *)

\* the rule the configuration gives the heading of column c (0-based), and
\* the one it gives the coordinate r,c; "none" without one
headingRule(c) ==
  LET key == At0(config.headings, c)
  IN  IF key \in DOMAIN config.modifyConfig
         /\ config.modifyConfig[key] # "notAFunction"
      THEN config.modifyConfig[key] ELSE "none"

coordinateRule(r, c) ==
  LET key == NatToString(r) \o <<",">> \o NatToString(c)
  IN  IF key \in DOMAIN config.modifyConfig
         /\ config.modifyConfig[key] # "notAFunction"
      THEN config.modifyConfig[key] ELSE "none"

\* the cells of the table, as 0-based coordinates
coordinates ==
  {rc \in (0..(Len(config.data) - 1)) \X (0..(Len(config.headings) - 1)) : TRUE}

\* C11: a cell with a heading rule H and a coordinate rule K ends as
\* K(H(cell)); a cell with one of the two ends as that rule of the cell.
C11_RuleComposition ==
  \A rc \in coordinates :
    LET r == rc[1]
        c == rc[2]
        cell == At0(At0(config.data, r), c)
        final == At0(At0(processedData, r), c)
        H == headingRule(c)
        K == coordinateRule(r, c)
    IN  /\ (H \notin {"none", "throw"} /\ K \notin {"none", "throw"})
             => final = ruleResult(K, ruleResult(H, cell))
        /\ (H \notin {"none", "throw"} /\ K = "none") => final = ruleResult(H, cell)
        /\ (H = "none" /\ K \notin {"none", "throw"}) => final = ruleResult(K, cell)

\* C12: a cell for which a rule throws keeps its original value; a cell with
\* one rule that does not throw has it applied, one with no rule is as it
\* was; the rows are as many and as long as before.  (The cell with two rules
\* that do not throw is C11's.)
C12_RuleFailureIsolation ==
  /\ Len(processedData) = Len(config.data)
  /\ \A r \in 1..Len(processedData) : Len(processedData[r]) = Len(config.data[r])
  /\ \A rc \in coordinates :
       LET r == rc[1]
           c == rc[2]
           cell == At0(At0(config.data, r), c)
           final == At0(At0(processedData, r), c)
           H == headingRule(c)
           K == coordinateRule(r, c)
       IN  /\ (H = "throw" \/ K = "throw") => final = cell
           /\ (H \notin {"none", "throw"} /\ K = "none") => final = ruleResult(H, cell)
           /\ (H = "none" /\ K \notin {"none", "throw"}) => final = ruleResult(K, cell)
           /\ (H = "none" /\ K = "none") => final = cell

----------------------------------------------------------------------------
(* Claims about the text of a cell: C13, C14, C19, under SpecCells *)

\* the cells rendered in the table body
renderedCells ==
  {tbody[r].cells[c] : r \in 1..Len(tbody), c \in 1..Len(processedHeadings)}

\* the text the <td> of the cell shows, the white space around it aside
shownText(cell) == trim(textContent(cell))

\* the elements of an array cell joined by a separator and a space
listText(cell, sep) == join(elements(cell), <<sep, " ">>)

\* C13: the text shown for a cell is its export text, for every kind of
\* cell; for an array the two are its elements joined, by "," and a space
\* when shown (within brackets or not) and by ";" and a space when exported.
C13_DisplayExportAgree ==
  \A cell \in renderedCells :
    IF cell.k = "array"
    THEN /\ shownText(cell) \in {listText(cell, ","),
                                 <<"[">> \o listText(cell, ",") \o <<"]">>}
         /\ getCellTextContent(cell) = listText(cell, ";")
    ELSE shownText(cell) = getCellTextContent(cell)

\* C14: a date cell of an invalid instant has the empty export text and the
\* rendering of an empty cell.
C14_InvalidDateIsEmpty ==
  \A cell \in renderedCells :
    cell.k = "invalidDate" =>
      /\ getCellTextContent(cell) = <<>>
      /\ renderCell(cell) = renderCell(Null)

\* C19: an array cell is rendered as its elements joined by "," and a space,
\* a date cell of a valid instant as its formatted date; neither as the
\* serialization of a generic object.
C19_SpecificKindsFirst ==
  \A cell \in renderedCells :
    /\ cell.k = "array" =>
         shownText(cell) = <<"[">> \o listText(cell, ",") \o <<"]">>
    /\ cell.k = "date" => shownText(cell) = formatDateOrTimestamp(cell)

----------------------------------------------------------------------------
(* Claim about the handlers: C15, under SpecHandlers *)

\* C15: callUserFunction returns true exactly when a function is registered
\* under the name, and then it has called it once, the checkbox state its
\* third argument iff it is not null; otherwise it returns false, calls
\* nothing, and no error reaches the caller.
C15_CallUserFunction ==
  [][lastOp'.op = "callUserFunction" =>
       LET fnName == lastOp'.arg[1]
           rowIndex == lastOp'.arg[2]
           checkboxState == lastOp'.arg[3]
           registered == /\ fnName \in DOMAIN window
                         /\ window[fnName] # "number"
           rowData == At0(processedData, rowIndex)
       IN  /\ (returned' = "true") <=> registered
           /\ registered =>
                /\ Len(calls') = Len(calls) + 1
                /\ SubSeq(calls', 1, Len(calls)) = calls
                /\ calls'[Len(calls')].fn = fnName
                /\ calls'[Len(calls')].args =
                     IF checkboxState = "null" THEN <<rowData, rowIndex>>
                     ELSE <<rowData, rowIndex, checkboxState>>
           /\ ~registered =>
                /\ returned' = "false"
                /\ calls' = calls
                /\ ~uncaught']_vars

----------------------------------------------------------------------------
(* Claims about the view: C16, C17, C18, C20, under Spec *)

\* the text of the sort icon that shows a direction
iconOf(direction) ==
  IF direction = "asc" THEN "up" ELSE IF direction = "desc" THEN "down" ELSE "updown"

\* C16: no sort request, filter or data update ends by an uncaught error,
\* and after a sort request the icon of the column shows the direction of
\* the sort state.
C16_NothingFatal ==
  /\ ~uncaught
  /\ lastOp.op = "sortByColumn" =>
       sortIcon[lastOp.arg + 1] = iconOf(sortState.direction)

\* C17: the direction of the sort state is none iff its column is none.
C17_SortStatePaired ==
  (sortState.direction = "null") <=> (sortState.colIndex = nullIndex)

\* a data update has left a descending sort state as it was
C17_Witness ==
  /\ lastOp.op = "updateData"
  /\ sortState.direction = "desc"
  /\ sortState.colIndex = 1

\* C18: every sortByColumn leaves filteredData equal to the whole new
\* displayData, and they stay equal until the next filter.
C18_SortResetsFilter ==
  lastOp.op # "filterTable" => filteredData = displayData

\* a sort has put back the rows that the filter text still in the inputs
\* had taken out
C18_Witness ==
  /\ lastOp.op = "sortByColumn"
  /\ Len(filteredData) >= 2
  /\ \E i \in 1..Len(inputs) : trim(inputs[i]) # <<>>
  /\ \E r \in 1..Len(tbody) : ~rowVisible(tbody[r], inputs)

\* C20: a filter run again with the predicates as they are leaves
\* filteredData as the filter before it left it.
C20_FilterIdempotent ==
  [][(/\ lastOp.op = "filterTable"
      /\ lastOp'.op = "filterTable"
      /\ inputs' = inputs)
       => filteredData' = filteredData]_vars

\* the filter has run again, for an input left empty, over a table of which
\* the text of the other input hides rows
C20_Witness ==
  /\ lastOp = Op("filterTable", 0)
  /\ inputs[1] = <<>>
  /\ trim(inputs[2]) # <<>>
  /\ \E r \in 1..Len(tbody) : tbody[r].hidden
  /\ Len(filteredData) > 0
  /\ Len(filteredData) < Len(displayData)

----------------------------------------------------------------------------
(* Claims about the rows reported for buttons and checkboxes: C21, under     *)
(* SpecActions                                                               *)

\* C21: the row data reported for the table row at position i, by
\* getCheckedRows for a checked checkbox of that row and as the rowData a
\* handler is called with for a button or checkbox of that row, is the row
\* shown at position i, displayData[i], whatever sorts came before.
C21_RowIdentity ==
  [][ /\ lastOp'.op = "getCheckedRows" =>
          \A k \in 1..Len(checkedRows') :
            checkedRows'[k].data = At0(displayData', checkedRows'[k].index)
      /\ lastOp'.op \in {"buttonClick", "checkboxChange"} /\ calls' # calls =>
          calls'[Len(calls')].args[1] = At0(displayData', lastOp'.arg[1])
    ]_vars

----------------------------------------------------------------------------
(* Claims about a page with two tables: C22, under SpecPage                  *)

\* C22: a click on a heading of one of two tables of a page changes the sort
\* state, displayData and filteredData of that table only: the sort state
\* and the view of the other table stay as they were, whichever table was
\* created first.
C22_InstanceIsolation ==
  [][ /\ lastOp'.op = "headerClick" /\ lastOp'.arg[1] = "this" =>
          other' = other
      /\ lastOp'.op = "headerClick" /\ lastOp'.arg[1] = "other" =>
          UNCHANGED <<sortState, processedData, displayData, filteredData>>
    ]_vars

----------------------------------------------------------------------------
(* Claims about what the operations leave alone: C23, under SpecFrame        *)

\* C23: sortByColumn and the filter leave processedData (its rows and their
\* order) and the configured data that getData returns as they were; the
\* filter also leaves displayData and the sort state; the metric calculation
\* and downloadAsCSV leave the sort state, processedData, displayData and
\* filteredData.
C23_FrameConditions ==
  [][ /\ lastOp'.op \in {"sortByColumn", "filterTable"} =>
          processedData' = processedData /\ config'.data = config.data
      /\ lastOp'.op = "filterTable" =>
          displayData' = displayData /\ sortState' = sortState
      /\ lastOp'.op \in {"metricChange", "downloadAsCSV"} =>
          UNCHANGED <<sortState, processedData, displayData, filteredData>>
    ]_vars

\* a CSV export of a table that is sorted into another order than that of
\* processedData and filtered to a part of its rows
C23_Witness ==
  /\ lastOp.op = "downloadAsCSV"
  /\ csvContent # <<>>
  /\ sortState.direction # "null"
  /\ displayData # processedData
  /\ filteredData # displayData
  /\ filteredData # <<>>

====
